---- MODULE Spec2Model ----
(***************************************************************************)
(* A model of the Basefold commitment library: the field engine            *)
(* (src/src/field.rs), the Merkle authenticator (src/src/merkle.rs), the   *)
(* Reed-Muller code (src/src/reed_muller.rs) and the Basefold protocol     *)
(* (src/src/basefold.rs).                                                  *)
(*                                                                         *)
(* Three specifications share the variables:                               *)
(*   SpecField   the field engine's operations on bounded operands,        *)
(*   SpecMerkle  MerkleTree::new / generate_proof / MerkleProof::verify,   *)
(*   Spec        a protocol instance with commit, query, the caller's      *)
(*               edits of a transcript, and verify_merkle_proof.           *)
(***************************************************************************)
EXTENDS Integers, Sequences, FiniteSets, TLC

VARIABLES
    overflow_checks,  \* the build's overflow-checks flag (debug: TRUE, release: FALSE)
    fcall,            \* field engine: the last call, its operands and what it returned
    mstage,           \* Merkle authenticator: "init", "built", "proved", "verified"
    mtree,            \* the MerkleTree built by MerkleTree::new
    mproof,           \* what generate_proof returned
    mverdict,         \* what MerkleProof::verify returned
    code_family,      \* BasefoldProtocol.code_family
    t_vectors,        \* BasefoldProtocol.t_vectors
    commitment_randomness,  \* BasefoldProtocol.commitment_randomness
    hash_table,       \* BasefoldProtocol.hash_table
    stage,            \* the caller: "ready", "committed", "tampered", "queried",
                      \* "verified", or "panicked" once a call has panicked
    ncommits,         \* commit calls so far
    committed,        \* the last commit call: its message and the oracles it returned
    oracles,          \* the transcript the caller holds and hands to query
    qres,             \* the last query call: lambda, the indices checked, the verdict
    vcall,            \* verify_merkle_proof: its arguments and two calls' verdicts
    rmcall            \* a ReedMullerCode: its parameters, its parity-check matrix
                      \* once new has built it, and the entry last read

fieldVars == <<overflow_checks, fcall>>

merkleVars == <<mstage, mtree, mproof, mverdict>>

instanceVars == <<code_family, t_vectors, commitment_randomness, hash_table>>

callerVars == <<stage, ncommits, committed, oracles, qres, vcall>>

protocolVars == <<instanceVars, callerVars>>

codeVars == <<rmcall>>

otherVarsOfField == <<merkleVars, protocolVars, codeVars>>

vars == <<overflow_checks, fcall, mstage, mtree, mproof, mverdict,
          code_family, t_vectors, commitment_randomness, hash_table,
          stage, ncommits, committed, oracles, qres, vcall, rmcall>>

(***************************************************************************)
(* Machine integers.  FieldElement holds value and modulus as u128 and     *)
(* inverse() computes in i128.  The model keeps the two's-complement       *)
(* structure with the width as a parameter: WordBits stands for 128.       *)
(***************************************************************************)
WordBits == 6

WordModulus == 2 ^ WordBits

MaxWord == WordModulus - 1

SignedMax == 2 ^ (WordBits - 1) - 1

SignedMin == 0 - 2 ^ (WordBits - 1)

\* `x as i128` for an unsigned x
AsSigned(x) == IF x > SignedMax THEN x - WordModulus ELSE x

\* `x as u128` for a signed x
AsUnsigned(x) == x % WordModulus

\* a signed result reduced to the width (two's complement wrap)
WrapSigned(x) == AsSigned(x % WordModulus)

\* Rust's `/` on signed integers truncates toward zero
TruncDiv(a, b) ==
    IF b = 0 THEN 0
    ELSE LET q == (IF a < 0 THEN 0 - a ELSE a) \div (IF b < 0 THEN 0 - b ELSE b)
         IN IF (a < 0) = (b < 0) THEN q ELSE 0 - q

(***************************************************************************)
(* Results.  An operation returns Ok(element), an Err of FieldError, or    *)
(* panics (an assert, an expect, or an arithmetic overflow under           *)
(* overflow-checks).                                                       *)
(***************************************************************************)
Elem(v, m) == [value |-> v, modulus |-> m]

Ok(e) == [kind |-> "Ok", elem |-> e]

Err(k) == [kind |-> k, elem |-> Elem(0, 0)]

Panic == Err("panic")

IsOk(r) == r.kind = "Ok"

\* an unsigned intermediate x: kept when it fits, else a panic under
\* overflow-checks and the wrapped value without
UArith(x) ==
    IF x >= 0 /\ x <= MaxWord THEN [ok |-> TRUE, v |-> x]
    ELSE IF overflow_checks THEN [ok |-> FALSE, v |-> 0]
    ELSE [ok |-> TRUE, v |-> x % WordModulus]

\* the same for a signed intermediate
SArith(x) ==
    IF x >= SignedMin /\ x <= SignedMax THEN [ok |-> TRUE, v |-> x]
    ELSE IF overflow_checks THEN [ok |-> FALSE, v |-> 0]
    ELSE [ok |-> TRUE, v |-> WrapSigned(x)]

(***************************************************************************)
(* FieldElement                                                            *)
(***************************************************************************)
FieldElement_new(value, modulus) ==
    IF modulus <= 1 THEN Err("InvalidModulus")
    ELSE IF value >= modulus THEN Err("ValueExceedsModulus")
    ELSE Ok(Elem(value, modulus))

FieldElement_zero(modulus) == FieldElement_new(0, modulus)

FieldElement_one(modulus) == FieldElement_new(1, modulus)

\* add with the reduction `% self.modulus` left out
add_unreduced(self, other) ==
    IF self.modulus # other.modulus THEN Panic
    ELSE LET s == UArith(self.value + other.value)
         IN IF s.ok THEN Ok(Elem(s.v, self.modulus)) ELSE Panic

add(self, other) ==
    IF self.modulus # other.modulus THEN Panic
    ELSE LET s == UArith(self.value + other.value)
         IN IF s.ok THEN Ok(Elem(s.v % self.modulus, self.modulus)) ELSE Panic

sub(self, other) ==
    IF self.modulus # other.modulus THEN Panic
    ELSE IF self.value >= other.value
         THEN Ok(Elem(self.value - other.value, self.modulus))
         ELSE Ok(Elem(self.modulus - (other.value - self.value), self.modulus))

mul(self, other) ==
    IF self.modulus # other.modulus THEN Panic
    ELSE LET p == UArith(self.value * other.value)
         IN IF p.ok THEN Ok(Elem(p.v % self.modulus, self.modulus)) ELSE Panic

\* One pass of the loop of inverse(): st = [old_r, r, old_s, s, old_t, t, ok].
\* The quotient of i128::MIN by -1 panics in every build.
RECURSIVE inverse_loop(_)
inverse_loop(st) ==
    IF ~st.ok \/ st.r = 0 THEN st
    ELSE IF st.old_r = SignedMin /\ st.r = 0 - 1 THEN [st EXCEPT !.ok = FALSE]
    ELSE LET quotient == TruncDiv(st.old_r, st.r)
             qr == SArith(quotient * st.r)
             nr == SArith(st.old_r - qr.v)
             qs == SArith(quotient * st.s)
             ns == SArith(st.old_s - qs.v)
             qt == SArith(quotient * st.t)
             nt == SArith(st.old_t - qt.v)
         IN inverse_loop([old_r |-> st.r, r |-> nr.v,
                          old_s |-> st.s, s |-> ns.v,
                          old_t |-> st.t, t |-> nt.v,
                          ok |-> qr.ok /\ nr.ok /\ qs.ok /\ ns.ok /\ qt.ok /\ nt.ok])

inverse(self) ==
    IF self.value = 0 THEN Err("DivisionByZero")
    ELSE LET fin == inverse_loop([old_r |-> AsSigned(self.value), r |-> AsSigned(self.modulus),
                                  old_s |-> 1, s |-> 0, old_t |-> 0, t |-> 1, ok |-> TRUE])
             old_s == fin.old_s
             r1 == AsUnsigned(old_s)
             r2 == IF r1 >= self.modulus THEN r1 % self.modulus ELSE r1
             neg == SArith(0 - old_s)
             result == IF old_s < 0
                       THEN self.modulus - (AsUnsigned(neg.v) % self.modulus)
                       ELSE r2
         IN IF ~fin.ok \/ (old_s < 0 /\ ~neg.ok) THEN Panic
            ELSE FieldElement_new(result, self.modulus)

\* the loop of pow(): res = [ok, result, base]
RECURSIVE pow_loop(_, _, _, _)
pow_loop(ok, result, base, exponent) ==
    IF ~ok THEN Panic
    ELSE IF exponent = 0 THEN Ok(result)
    ELSE LET r1 == IF exponent % 2 = 1 THEN mul(result, base) ELSE Ok(result)
             b1 == mul(base, base)
         IN pow_loop(IsOk(r1) /\ IsOk(b1), r1.elem, b1.elem, exponent \div 2)

pow(self, exponent) == pow_loop(TRUE, Elem(1, self.modulus), self, exponent)

div(self, other) ==
    IF self.modulus # other.modulus THEN Panic
    ELSE LET inv == inverse(other)
         IN IF IsOk(inv) THEN mul(self, inv.elem) ELSE Panic

\* Option<Self>: Some(element) is carried as Ok(element)
None == Err("None")

\* a loop of sqrt() that comes back to a state it was in never returns
Diverges == Err("diverges")

\* `while q % 2 == 0 { q /= 2; s += 1; }`
RECURSIVE sqrt_split(_, _)
sqrt_split(q, s) ==
    IF q % 2 = 0 /\ q > 0 THEN sqrt_split(q \div 2, s + 1) ELSE [q |-> q, s |-> s]

\* the search for z from z on: [ok, z]; Self::new(z, modulus).unwrap() panics
\* once z reaches the modulus, and pow panics when a product overflows
RECURSIVE sqrt_find_z(_, _)
sqrt_find_z(modulus, z) ==
    IF ~IsOk(FieldElement_new(z, modulus)) THEN [ok |-> FALSE, z |-> z]
    ELSE LET e == pow(Elem(z, modulus), (modulus - 1) \div 2)
         IN IF ~IsOk(e) THEN [ok |-> FALSE, z |-> z]
            ELSE IF e.elem.value = 1 THEN sqrt_find_z(modulus, z + 1)
            ELSE [ok |-> TRUE, z |-> z]

\* `while temp.value != 1 && i < m { temp = temp * temp; i += 1; }`: [ok, i]
RECURSIVE sqrt_order(_, _, _)
sqrt_order(temp, i, m) ==
    IF temp.value # 1 /\ i < m
    THEN LET sq == mul(temp, temp)
         IN IF IsOk(sq) THEN sqrt_order(sq.elem, i + 1, m) ELSE [ok |-> FALSE, i |-> i]
    ELSE [ok |-> TRUE, i |-> i]

\* `1u128 << (m - i - 1)`: a negative amount panics under overflow-checks and
\* is masked to the width's low bits without (-1 becomes width - 1)
sqrt_shift(m, i) ==
    IF m - i - 1 >= 0 THEN [ok |-> TRUE, v |-> 2 ^ (m - i - 1)]
    ELSE IF overflow_checks THEN [ok |-> FALSE, v |-> 0]
    ELSE [ok |-> TRUE, v |-> 2 ^ (WordBits - 1)]

\* the loop `while t.value != 1` of sqrt(); seen holds the states (m, c, t, r)
\* the loop has been in
RECURSIVE sqrt_loop(_, _, _, _, _)
sqrt_loop(m, c, t, r, seen) ==
    IF t.value = 1 THEN Ok(r)
    ELSE IF <<m, c, t, r>> \in seen THEN Diverges
    ELSE LET ord == sqrt_order(t, 0, m)
             sh == sqrt_shift(m, ord.i)
             b == pow(c, sh.v)
             c1 == mul(b.elem, b.elem)
             t1 == mul(t, c1.elem)
             r1 == mul(r, b.elem)
         IN IF ~ord.ok THEN Panic
            ELSE IF ord.i = 0 THEN Ok(r)
            ELSE IF ~sh.ok \/ ~IsOk(b) THEN Panic
            ELSE IF ~IsOk(c1) \/ ~IsOk(t1) \/ ~IsOk(r1) THEN Panic
            ELSE sqrt_loop(ord.i, c1.elem, t1.elem, r1.elem, seen \cup {<<m, c, t, r>>})

sqrt(self) ==
    IF self.value = 0 THEN Ok(self)
    ELSE LET euler == pow(self, (self.modulus - 1) \div 2)
             qs == sqrt_split(self.modulus - 1, 0)
             found == sqrt_find_z(self.modulus, 2)
             c == pow(Elem(found.z, self.modulus), qs.q)
             t == pow(self, qs.q)
             r == pow(self, (qs.q + 1) \div 2)
         IN IF ~IsOk(euler) THEN Panic
            ELSE IF euler.elem.value # 1 THEN None
            ELSE IF ~found.ok THEN Panic
            ELSE IF ~IsOk(c) \/ ~IsOk(t) \/ ~IsOk(r) THEN Panic
            ELSE sqrt_loop(qs.s, c.elem, t.elem, r.elem, {})

(***************************************************************************)
(* The field engine's calls.  Init draws a modulus and two operands; each  *)
(* action applies one operation to them and records what it returned.      *)
(* The second operand doubles as the exponent of pow.                      *)
(***************************************************************************)
Words == 0 .. MaxWord

Call(op, m, a, b, res) == [op |-> op, modulus |-> m, a |-> a, b |-> b, result |-> res]

Fresh == fcall.op = "none"

\* both operands were built by FieldElement::new
ValidOperands ==
    /\ IsOk(FieldElement_new(fcall.a, fcall.modulus))
    /\ IsOk(FieldElement_new(fcall.b, fcall.modulus))

OperandA == Elem(fcall.a, fcall.modulus)

OperandB == Elem(fcall.b, fcall.modulus)

Returned(op, res) == fcall' = [fcall EXCEPT !.op = op, !.result = res]

FieldInputs ==
    /\ overflow_checks \in BOOLEAN
    /\ \E m \in Words : \E a \in 0 .. m, b \in 0 .. m :
          /\ a <= MaxWord /\ b <= MaxWord
          /\ (a = m => b = 0)
          /\ (b = m => a = 0)
          /\ fcall = Call("none", m, a, b, Panic)

DoNew ==
    /\ Fresh
    /\ Returned("new", FieldElement_new(fcall.a, fcall.modulus))
    /\ UNCHANGED <<overflow_checks, otherVarsOfField>>

DoZero ==
    /\ Fresh /\ fcall.a = 0 /\ fcall.b = 0
    /\ Returned("zero", FieldElement_zero(fcall.modulus))
    /\ UNCHANGED <<overflow_checks, otherVarsOfField>>

DoOne ==
    /\ Fresh /\ fcall.a = 0 /\ fcall.b = 0
    /\ Returned("one", FieldElement_one(fcall.modulus))
    /\ UNCHANGED <<overflow_checks, otherVarsOfField>>

DoAdd ==
    /\ Fresh /\ ValidOperands
    /\ Returned("add", add(OperandA, OperandB))
    /\ UNCHANGED <<overflow_checks, otherVarsOfField>>

DoSub ==
    /\ Fresh /\ ValidOperands
    /\ Returned("sub", sub(OperandA, OperandB))
    /\ UNCHANGED <<overflow_checks, otherVarsOfField>>

DoMul ==
    /\ Fresh /\ ValidOperands
    /\ Returned("mul", mul(OperandA, OperandB))
    /\ UNCHANGED <<overflow_checks, otherVarsOfField>>

DoDiv ==
    /\ Fresh /\ ValidOperands
    /\ Returned("div", div(OperandA, OperandB))
    /\ UNCHANGED <<overflow_checks, otherVarsOfField>>

DoInverse ==
    /\ Fresh /\ ValidOperands /\ fcall.b = 0
    /\ Returned("inverse", inverse(OperandA))
    /\ UNCHANGED <<overflow_checks, otherVarsOfField>>

DoPow ==
    /\ Fresh /\ ValidOperands
    /\ Returned("pow", pow(OperandA, fcall.b))
    /\ UNCHANGED <<overflow_checks, otherVarsOfField>>

DoSqrt ==
    /\ Fresh /\ ValidOperands /\ fcall.b = 0
    /\ Returned("sqrt", sqrt(OperandA))
    /\ UNCHANGED <<overflow_checks, otherVarsOfField>>

FieldNext ==
    \/ DoNew \/ DoZero \/ DoOne
    \/ DoAdd \/ DoSub \/ DoMul \/ DoDiv
    \/ DoInverse \/ DoPow \/ DoSqrt

(***************************************************************************)
(* Claims about the field engine (checked under SpecField).                *)
(***************************************************************************)
RECURSIVE HasDivisor(_, _)
HasDivisor(n, d) == IF d * d > n THEN FALSE ELSE IF n % d = 0 THEN TRUE ELSE HasDivisor(n, d + 1)

IsPrime(n) == n >= 2 /\ ~HasDivisor(n, 2)

InRange(e) == 0 <= e.value /\ e.value < e.modulus

RangeOps == {"new", "zero", "one", "add", "sub", "mul", "div", "inverse", "pow"}

\* C9: every element returned by new, zero, one, add, sub, mul, div, inverse
\* and pow on valid operands of one modulus has 0 <= value < modulus, under
\* the operands' modulus.
C9_RangeInvariant ==
    (fcall.op \in RangeOps /\ IsOk(fcall.result)) =>
        /\ InRange(fcall.result.elem)
        /\ fcall.result.elem.modulus = fcall.modulus

\* C9's case: a product that does not fit the word, reduced after the wrap,
\* and a quotient by a non-zero divisor.
C9_Witness ==
    \/ /\ fcall.op = "mul" /\ fcall.a * fcall.b > MaxWord
       /\ IsOk(fcall.result) /\ fcall.result.elem.value > 0
    \/ /\ fcall.op = "div" /\ fcall.b # 0 /\ fcall.a > 1
       /\ IsOk(fcall.result) /\ fcall.result.elem.value > 1

\* C10: for a prime modulus and a non-zero a, inverse(a) succeeds,
\* a * inverse(a) == one and inverse(inverse(a)) == a.
C10_InverseIsInverse ==
    (fcall.op = "inverse" /\ IsPrime(fcall.modulus) /\ fcall.a # 0) =>
        /\ IsOk(fcall.result)
        /\ mul(OperandA, fcall.result.elem) = FieldElement_one(fcall.modulus)
        /\ inverse(fcall.result.elem) = Ok(OperandA)

\* a^e mod p over the integers
RECURSIVE ModPow(_, _, _)
ModPow(a, e, p) == IF e = 0 THEN 1 % p ELSE (a * ModPow(a, e - 1, p)) % p

\* C11: for a prime modulus p and an element a, sqrt(a) returns: a itself
\* when a is zero, None when a^((p-1)/2) != 1, and otherwise Some(s) with
\* s * s == a.
C11_SqrtCorrect ==
    (fcall.op = "sqrt" /\ IsPrime(fcall.modulus)) =>
        IF fcall.a = 0 THEN fcall.result = Ok(OperandA)
        ELSE IF ModPow(fcall.a, (fcall.modulus - 1) \div 2, fcall.modulus) # 1
             THEN fcall.result = None
        ELSE /\ IsOk(fcall.result)
             /\ fcall.result.elem.modulus = fcall.modulus
             /\ (fcall.result.elem.value * fcall.result.elem.value) % fcall.modulus = fcall.a

\* C12: for every modulus of the word's width and all a, b below it, mul(a, b)
\* returns (a * b) mod modulus computed over the integers: the product is
\* neither truncated modulo 2^w nor trapped before the reduction.
C12_MulExact ==
    (fcall.op = "mul") =>
        /\ IsOk(fcall.result)
        /\ fcall.result.elem = Elem((fcall.a * fcall.b) % fcall.modulus, fcall.modulus)

(***************************************************************************)
(* Merkle authenticator (src/src/merkle.rs).                               *)
(* Sha3_256 is modelled as a collision-free hash: the digest of the        *)
(* absorbed data is a value that determines that data.  A leaf value is    *)
(* one atom; an inner node absorbs two digests.                            *)
(***************************************************************************)
MaxLeaves == 4

MaxLeafValue == 2

Sha3_256(data) == [sha3 |-> data]

\* one level up: chunks(2), a lone last node hashed with itself
NextLayer(layer) ==
    [c \in 1 .. ((Len(layer) + 1) \div 2) |->
        IF 2 * c <= Len(layer)
        THEN Sha3_256(<<layer[2 * c - 1], layer[2 * c]>>)
        ELSE Sha3_256(<<layer[2 * c - 1], layer[2 * c - 1]>>)]

RECURSIVE BuildLayers(_, _)
BuildLayers(layers, current_layer) ==
    IF Len(current_layer) > 1
    THEN BuildLayers(Append(layers, NextLayer(current_layer)), NextLayer(current_layer))
    ELSE layers

MerkleTree_new(values) ==
    LET leaves == [i \in 1 .. Len(values) |-> Sha3_256(<<values[i]>>)]
    IN [layers |-> BuildLayers(<<leaves>>, leaves), leaves |-> leaves]

root(tree) == tree.layers[Len(tree.layers)][1]

\* the loop of generate_proof over layers[..len-1]; indices are 0-based as in
\* the source, sequences 1-based
RECURSIVE ProofLoop(_, _, _, _)
ProofLoop(layers, level, current_idx, proof) ==
    IF level > Len(layers) - 1 THEN proof
    ELSE LET sibling_idx == IF current_idx % 2 = 0 THEN current_idx + 1 ELSE current_idx - 1
             step == IF sibling_idx < Len(layers[level])
                     THEN Append(proof, [sibling |-> layers[level][sibling_idx + 1],
                                         is_right |-> (current_idx % 2 = 0)])
                     ELSE proof
         IN ProofLoop(layers, level + 1, current_idx \div 2, step)

generate_proof(tree, index) ==
    IF index >= Len(tree.leaves)
    THEN [kind |-> "InvalidParameters", proof |-> <<>>, leaf |-> Sha3_256(<<>>), index |-> index]
    ELSE [kind |-> "Ok", proof |-> ProofLoop(tree.layers, 1, index, <<>>),
          leaf |-> tree.leaves[index + 1], index |-> index]

RECURSIVE VerifyLoop(_, _, _)
VerifyLoop(proof, k, current_hash) ==
    IF k > Len(proof) THEN current_hash
    ELSE VerifyLoop(proof, k + 1,
                    IF proof[k].is_right
                    THEN Sha3_256(<<current_hash, proof[k].sibling>>)
                    ELSE Sha3_256(<<proof[k].sibling, current_hash>>))

MerkleProof_verify(self, root_hash) == VerifyLoop(self.proof, 1, self.leaf) = root_hash

LeafValues == 0 .. MaxLeafValue

LeafLists == UNION {[1 .. n -> LeafValues] : n \in 1 .. MaxLeaves}

NoTree == [layers |-> <<>>, leaves |-> <<>>]

NoProof == [kind |-> "none", proof |-> <<>>, leaf |-> Sha3_256(<<>>), index |-> 0]

MerkleIdle ==
    /\ mstage = "init"
    /\ mtree = NoTree
    /\ mproof = NoProof
    /\ mverdict = FALSE

MerkleBuild ==
    /\ mstage = "init"
    /\ \E values \in LeafLists : mtree' = MerkleTree_new(values)
    /\ mstage' = "built"
    /\ UNCHANGED <<mproof, mverdict, fieldVars, protocolVars, codeVars>>

MerkleGenerateProof ==
    /\ mstage = "built"
    /\ \E index \in 0 .. Len(mtree.leaves) : mproof' = generate_proof(mtree, index)
    /\ mstage' = "proved"
    /\ UNCHANGED <<mtree, mverdict, fieldVars, protocolVars, codeVars>>

MerkleVerify ==
    /\ mstage = "proved"
    /\ mproof.kind = "Ok"
    /\ mverdict' = MerkleProof_verify(mproof, root(mtree))
    /\ mstage' = "verified"
    /\ UNCHANGED <<mtree, mproof, fieldVars, protocolVars, codeVars>>

MerkleNext == MerkleBuild \/ MerkleGenerateProof \/ MerkleVerify

\* C5: for every non-empty list of leaf values and every index below the
\* leaf count, the proof of generate_proof(index) verifies against the root.
C5_RoundTrip == (mstage = "verified") => mverdict

(***************************************************************************)
(* The protocol's field.  basefold.rs and reed_muller.rs build elements    *)
(* with FieldElement::new(x), zero() and one() over one implied modulus,   *)
(* FIELD_SIZE (reed_muller.rs:60); protocol values are kept as the         *)
(* elements' values.                                                       *)
(***************************************************************************)
FIELD_SIZE == 5

\* F applied to the value of e: TLC evaluates e once instead of at every use
WithValue(e, F(_)) == CHOOSE out \in {F(x) : x \in {e}} : TRUE

Field == 0 .. (FIELD_SIZE - 1)

FE(v) == Elem(v % FIELD_SIZE, FIELD_SIZE)

fadd(a, b) == add(FE(a), FE(b)).elem.value

fsub(a, b) == sub(FE(a), FE(b)).elem.value

fmul(a, b) == mul(FE(a), FE(b)).elem.value

(***************************************************************************)
(* Reed-Muller code (src/src/reed_muller.rs).                              *)
(***************************************************************************)
RECURSIVE combinations_helper(_, _, _, _)
RECURSIVE combinations_from(_, _, _, _)
\* the for loop `for i in start..n` of combinations_helper
combinations_from(n, k, i, combination) ==
    IF i >= n THEN <<>>
    ELSE combinations_helper(n, k, i + 1, Append(combination, i))
         \o combinations_from(n, k, i + 1, combination)

combinations_helper(n, k, start, combination) ==
    IF Len(combination) = k THEN <<combination>>
    ELSE combinations_from(n, k, start, combination)

generate_combinations(n, k) == combinations_helper(n, k, 0, <<>>)

\* the evaluation point of index j: point[i] is bit i of j (point_to_index)
generate_evaluation_points(variables) ==
    [j1 \in 1 .. (2 ^ variables) |-> [i1 \in 1 .. variables |-> ((j1 - 1) \div (2 ^ (i1 - 1))) % 2]]

RECURSIVE Binomial(_, _)
Binomial(n, k) ==
    IF k = 0 THEN 1 ELSE IF n = 0 THEN 0 ELSE Binomial(n - 1, k - 1) + Binomial(n - 1, k)

RECURSIVE compute_dimension(_, _)
compute_dimension(degree, variables) ==
    IF degree = 0 THEN 1
    ELSE compute_dimension(degree - 1, variables) + Binomial(variables, degree)

\* the monomials of degree <= `degree`, by degree
RECURSIVE Monomials(_, _)
Monomials(degree, variables) ==
    IF degree = 0 THEN generate_combinations(variables, 0)
    ELSE Monomials(degree - 1, variables) \o generate_combinations(variables, degree)

\* a monomial at a point: 1 when every variable of it is 1 there
MonomialAt(combination, point) ==
    IF \A c \in 1 .. Len(combination) : point[combination[c] + 1] = 1 THEN 1 ELSE 0

generate_generator_matrix(degree, variables, evaluation_points) ==
    LET rows == Monomials(degree, variables)
    IN [i \in 1 .. Len(rows) |->
           [j \in 1 .. Len(evaluation_points) |-> MonomialAt(rows[i], evaluation_points[j])]]

ReedMullerCode_new(degree, variables) ==
    [degree |-> degree, variables |-> variables,
     n |-> 2 ^ variables, k |-> compute_dimension(degree, variables)]

generator_matrix(code) ==
    generate_generator_matrix(code.degree, code.variables,
                              generate_evaluation_points(code.variables))

\* codeword[j] after the rows 1..i of the double loop of encode
RECURSIVE EncodeSum(_, _, _, _)
EncodeSum(G, message, i, j) ==
    IF i = 0 THEN 0
    ELSE fadd(EncodeSum(G, message, i - 1, j), fmul(message[i], G[i][j]))

\* encode: [ok, v]; ok is FALSE when assert_eq!(message.len(), self.k) fails
encode(code, message) ==
    IF Len(message) # code.k THEN [ok |-> FALSE, v |-> <<>>]
    ELSE WithValue(generator_matrix(code), LAMBDA G :
             [ok |-> TRUE,
              v |-> [j \in 1 .. code.n |-> EncodeSum(G, message, code.k, j)]])

\* eval after the loop `for &var in &combination` from position c on:
\* eval * FieldElement::new(1) where point[var] == 1, eval untouched elsewhere
RECURSIVE ParityEval(_, _, _, _)
ParityEval(combination, point, c, eval) ==
    IF c > Len(combination) THEN eval
    ELSE ParityEval(combination, point, c + 1,
                    IF point[combination[c] + 1] = 1 THEN fmul(eval, FE(1).value) ELSE eval)

\* the combinations the loop `for d in (degree + 1)..=variables` goes through
RECURSIVE dual_basis(_, _)
dual_basis(d, variables) ==
    IF d > variables THEN <<>>
    ELSE generate_combinations(variables, d) \o dual_basis(d + 1, variables)

generate_parity_check_matrix(degree, variables, evaluation_points) ==
    LET n == 2 ^ variables
        rows == dual_basis(degree + 1, variables)
    IN [i \in 1 .. Len(rows) |->
           [j \in 1 .. n |->
               IF j <= Len(evaluation_points)
               THEN ParityEval(rows[i], evaluation_points[j], 1, FE(1).value)
               ELSE 0]]

parity_check_matrix(code) ==
    generate_parity_check_matrix(code.degree, code.variables,
                                 generate_evaluation_points(code.variables))

(***************************************************************************)
(* Building one code and reading its parity-check matrix.                  *)
(***************************************************************************)
MaxCodeVariables == 4

NoMatrix == <<>>

CodeIdle ==
    rmcall = [stage |-> "idle", degree |-> 0, variables |-> 0, matrix |-> NoMatrix,
              row |-> 0, point |-> 0, entry |-> 0]

\* the parameters of a ReedMullerCode::new call
CodeInputs ==
    \E degree \in 0 .. MaxCodeVariables, variables \in 1 .. MaxCodeVariables :
        rmcall = [stage |-> "init", degree |-> degree, variables |-> variables,
                  matrix |-> NoMatrix, row |-> 0, point |-> 0, entry |-> 0]

\* ReedMullerCode::new fills parity_check_matrix
CodeNew ==
    /\ rmcall.stage = "init"
    /\ rmcall' = [rmcall EXCEPT
                    !.stage = "built",
                    !.matrix = parity_check_matrix(
                                   ReedMullerCode_new(rmcall.degree, rmcall.variables))]
    /\ UNCHANGED <<fieldVars, merkleVars, protocolVars>>

\* a reader takes parity_check_matrix[row][point]; both are 1-based here
CodeReadEntry ==
    /\ rmcall.stage = "built"
    /\ \E i \in 1 .. Len(rmcall.matrix) : \E j \in 1 .. Len(rmcall.matrix[i]) :
          rmcall' = [rmcall EXCEPT !.stage = "read", !.row = i, !.point = j,
                                   !.entry = rmcall.matrix[i][j]]
    /\ UNCHANGED <<fieldVars, merkleVars, protocolVars>>

CodeNext == CodeNew \/ CodeReadEntry

\* the sets of variables of size d, degree < d <= variables
DualSets(degree, variables) ==
    {S \in SUBSET (0 .. (variables - 1)) :
        degree < Cardinality(S) /\ Cardinality(S) <= variables}

\* the set of variables of the row i of the matrix of rmcall
RowSet(i) ==
    LET combination == dual_basis(rmcall.degree + 1, rmcall.variables)[i]
    IN {combination[c] : c \in 1 .. Len(combination)}

\* 1 when every variable of S is 1 at the point of index j, else 0
Indicator(S, j) ==
    LET point == generate_evaluation_points(rmcall.variables)[j]
    IN IF \A var \in S : point[var + 1] = 1 THEN 1 ELSE 0

\* C13: the parity-check matrix of a code of degree r over m variables has
\* n - k rows of length n = 2^m, one row for each set of variables of size d
\* with r < d <= m, and the entry of a row at an evaluation point is 1 if
\* every variable of the row's set is 1 at that point and 0 otherwise.
C13_ParityCheckMatrix ==
    (rmcall.stage \in {"built", "read"}) =>
        LET n == 2 ^ rmcall.variables
            k == compute_dimension(rmcall.degree, rmcall.variables)
            H == rmcall.matrix
        IN /\ Len(H) = n - k
           /\ \A i \in 1 .. Len(H) : Len(H[i]) = n
           /\ {RowSet(i) : i \in 1 .. Len(H)} = DualSets(rmcall.degree, rmcall.variables)
           /\ Len(H) = Cardinality(DualSets(rmcall.degree, rmcall.variables))
           /\ \A i \in 1 .. Len(H) : \A j \in 1 .. n : H[i][j] = Indicator(RowSet(i), j)
           /\ (rmcall.stage = "read") =>
                  rmcall.entry = Indicator(RowSet(rmcall.row), rmcall.point)

\* the shape alone: n - k rows of length n, one for each set of DualSets
ParityCheckShape ==
    (rmcall.stage \in {"built", "read"}) =>
        LET n == 2 ^ rmcall.variables
            k == compute_dimension(rmcall.degree, rmcall.variables)
            H == rmcall.matrix
        IN /\ Len(H) = n - k
           /\ \A i \in 1 .. Len(H) : Len(H[i]) = n
           /\ {RowSet(i) : i \in 1 .. Len(H)} = DualSets(rmcall.degree, rmcall.variables)
           /\ Len(H) = Cardinality(DualSets(rmcall.degree, rmcall.variables))

\* what the entries are: every one of them is 1
ParityEntriesAllOne ==
    (rmcall.stage \in {"built", "read"}) =>
        \A i \in 1 .. Len(rmcall.matrix) : \A j \in 1 .. Len(rmcall.matrix[i]) :
            rmcall.matrix[i][j] = 1

(***************************************************************************)
(* Basefold protocol (src/src/basefold.rs).                                *)
(***************************************************************************)
\* hash_pair with its random draw h: left * h + right
hash_pair(left, right, h) == fadd(fmul(left, h), right)

\* one level of build_merkle_tree; hs are the draws of its hash_pair calls
NextLevel(current_level, hs) ==
    [c \in 1 .. ((Len(current_level) + 1) \div 2) |->
        IF 2 * c <= Len(current_level)
        THEN hash_pair(current_level[2 * c - 1], current_level[2 * c], hs[c])
        ELSE current_level[2 * c - 1]]

RECURSIVE BuildLevels(_, _, _)
BuildLevels(tree, current_level, hs) ==
    IF Len(current_level) > 1
    THEN LET next_level == NextLevel(current_level, hs)
             used == Len(current_level) \div 2
         IN BuildLevels(Append(tree, next_level), next_level,
                        SubSeq(hs, used + 1, Len(hs)))
    ELSE tree

build_merkle_tree(values, hs) == BuildLevels(<<values>>, values, hs)

\* the number of hash_pair calls of build_merkle_tree over n values
RECURSIVE HashCalls(_)
HashCalls(n) == IF n <= 1 THEN 0 ELSE (n \div 2) + HashCalls((n + 1) \div 2)

RECURSIVE MerkleProofLoop(_, _, _, _)
MerkleProofLoop(tree, level, current_idx, proof) ==
    IF level > Len(tree) - 1 THEN proof
    ELSE LET sibling_idx == IF current_idx % 2 = 0 THEN current_idx + 1 ELSE current_idx - 1
         IN MerkleProofLoop(tree, level + 1, current_idx \div 2,
                            IF sibling_idx < Len(tree[level])
                            THEN Append(proof, tree[level][sibling_idx + 1])
                            ELSE proof)

generate_merkle_proof(tree, index) == MerkleProofLoop(tree, 1, index, <<>>)

\* HashMap::insert
Insert(table, key, value) ==
    [x \in (DOMAIN table) \cup {key} |-> IF x = key THEN value ELSE table[x]]

EmptyTable == [x \in {} |-> <<>>]

\* slope * (r - t_j) + v_j with slope = (v_j1 - v_j) * inverse(t_j1 - t_j);
\* [ok, v], ok FALSE when inverse() is an Err
FoldValue(t_j, t_j1, v_j, v_j1, r) ==
    LET numerator == fsub(v_j1, v_j)
        denominator == fsub(t_j1, t_j)
        inv == inverse(FE(denominator))
        slope == fmul(numerator, inv.elem.value)
    IN [ok |-> IsOk(inv), v |-> fadd(fmul(slope, fsub(r, t_j)), v_j)]

\* the loop `for j in (0..n).step_by(2)` of fold_with_merkle from pair p on,
\* st = [ok, folded, table] so far
RECURSIVE FoldLoop(_, _, _, _, _, _)
FoldLoop(v, t, r, tree, p, st) ==
    IF 2 * p >= Len(v) THEN st
    ELSE IF 2 * p + 2 > Len(t) \/ 2 * p + 2 > Len(v) THEN [st EXCEPT !.ok = FALSE]
    ELSE WithValue(FoldValue(t[2 * p + 1], t[2 * p + 2], v[2 * p + 1], v[2 * p + 2], r),
             LAMBDA f :
                 IF ~f.ok THEN [st EXCEPT !.ok = FALSE]
                 ELSE WithValue([ok |-> TRUE, folded |-> Append(st.folded, f.v),
                                 table |-> Insert(st.table, generate_merkle_proof(tree, p),
                                                  <<f.v>>)],
                          LAMBDA st1 : FoldLoop(v, t, r, tree, p + 1, st1)))

fold_with_merkle(v, t, r, table, hs) ==
    IF Len(v) % 2 # 0 THEN [ok |-> FALSE, folded |-> <<>>, table |-> table]
    ELSE WithValue(build_merkle_tree(v, hs), LAMBDA merkle_tree :
             FoldLoop(v, t, r, merkle_tree, 0, [ok |-> TRUE, folded |-> <<>>, table |-> table]))

\* one pass of the loop of commit, round i (1-based), from st = [ok, oracles, table]
CommitRound(family, tvs, rs, i, st, hs) ==
    WithValue(encode(family[i], st.oracles[Len(st.oracles)]), LAMBDA encoded :
        IF ~encoded.ok \/ i > Len(tvs) THEN [st EXCEPT !.ok = FALSE]
        ELSE WithValue(fold_with_merkle(encoded.v, tvs[i], rs[i], st.table, hs[i]),
                 LAMBDA f :
                     IF ~f.ok THEN [ok |-> FALSE, oracles |-> st.oracles, table |-> f.table]
                     ELSE [ok |-> TRUE, oracles |-> Append(st.oracles, f.folded),
                           table |-> f.table]))

RECURSIVE CommitLoop(_, _, _, _, _, _)
CommitLoop(family, tvs, rs, i, st, hs) ==
    IF i > Len(family) \/ ~st.ok THEN st
    ELSE WithValue(CommitRound(family, tvs, rs, i, st, hs),
             LAMBDA st1 : CommitLoop(family, tvs, rs, i + 1, st1, hs))

\* commit: [ok, oracles, table]; ok is FALSE when an assert or an index panics
commit(family, tvs, rs, table, message, hs) ==
    CommitLoop(family, tvs, rs, 1, [ok |-> TRUE, oracles |-> <<message>>, table |-> table], hs)

\* verify_merkle_proof with the draws hs of its hash_pair calls, one a sibling
RECURSIVE VerifyMerkleLoop(_, _, _, _, _)
VerifyMerkleLoop(proof, k, current, current_index, hs) ==
    IF k > Len(proof) THEN current
    ELSE VerifyMerkleLoop(proof, k + 1,
                          IF current_index % 2 = 0
                          THEN hash_pair(current, proof[k], hs[k])
                          ELSE hash_pair(proof[k], current, hs[k]),
                          current_index \div 2, hs)

verify_merkle_proof(root_value, value, proof, index, hs) ==
    VerifyMerkleLoop(proof, 1, value, index, hs) = root_value

\* verify_fold_at_point: "true", "false", or "panic" on an index out of range
\* or an Err of inverse(); mu is 0-based as in the source
verify_fold_at_point(pi_i, pi_i_plus1, t_i, r, mu) ==
    IF mu + 2 > Len(pi_i_plus1) \/ mu + 2 > Len(t_i) THEN "panic"
    ELSE WithValue(FoldValue(t_i[mu + 1], t_i[mu + 2], pi_i_plus1[mu + 1], pi_i_plus1[mu + 2], r),
             LAMBDA expected :
                 IF ~expected.ok \/ (mu \div 2) + 1 > Len(pi_i) THEN "panic"
                 ELSE IF pi_i[(mu \div 2) + 1] = expected.v THEN "true" ELSE "false")

\* the Merkle step of one round of verify_query_path_with_merkle: the lookup
\* of the pair pi_i_plus1[mu..mu+2] and, on a hit, the check of its entry;
\* an entry is vec![value_at_r], so proof[1..] is empty and verify_merkle_proof
\* calls no hash_pair
MerkleStep(table, pi_i, pi_i_plus1, mu) ==
    IF mu + 2 > Len(pi_i_plus1) THEN "panic"
    ELSE LET key == SubSeq(pi_i_plus1, mu + 1, mu + 2)
         IN IF key \in DOMAIN table
            THEN IF (mu \div 2) + 1 > Len(pi_i) \/ Len(table[key]) = 0 THEN "panic"
                 ELSE IF verify_merkle_proof(pi_i[(mu \div 2) + 1], table[key][1],
                                             Tail(table[key]), mu \div 2, <<>>)
                      THEN "true" ELSE "false"
            ELSE "true"

\* verify_query_path_with_merkle from round i on, counting down; i is the
\* source's i + 1 (oracles, t_vectors and challenges are 1-based here)
RECURSIVE verify_query_path_with_merkle(_, _, _, _, _, _)
verify_query_path_with_merkle(tvs, rs, table, orcs, i, mu) ==
    IF i = 0 THEN "true"
    ELSE IF i + 1 > Len(orcs) \/ i > Len(tvs) THEN "panic"
    ELSE WithValue(MerkleStep(table, orcs[i], orcs[i + 1], mu), LAMBDA m :
             IF m # "true" THEN m
             ELSE WithValue(verify_fold_at_point(orcs[i], orcs[i + 1], tvs[i], rs[i], mu),
                      LAMBDA f :
                          IF f # "true" THEN f
                          ELSE verify_query_path_with_merkle(tvs, rs, table, orcs,
                                                             i - 1, mu \div 2)))

\* `if mu % 2 != 0 { mu -= 1 }`
PairStart(mu) == IF mu % 2 # 0 THEN mu - 1 ELSE mu

\* the loop of query over the sampled indices mus, from iteration k on:
\* [verdict, sampled], sampled the pair starts checked so far
RECURSIVE QueryLoop(_, _, _, _, _, _, _, _)
QueryLoop(family, tvs, rs, table, orcs, mus, k, sampled) ==
    IF k > Len(mus) THEN [verdict |-> "true", sampled |-> sampled]
    ELSE WithValue(verify_query_path_with_merkle(tvs, rs, table, orcs, Len(family),
                                                 PairStart(mus[k])),
             LAMBDA v :
                 IF v # "true" THEN [verdict |-> v, sampled |-> Append(sampled, PairStart(mus[k]))]
                 ELSE QueryLoop(family, tvs, rs, table, orcs, mus, k + 1,
                                Append(sampled, PairStart(mus[k]))))

\* the range gen_range samples from: 0 .. oracles[d].len() - 1, d = len - 1
SampleRange(family, orcs) ==
    IF Len(family) > Len(orcs) THEN {} ELSE 0 .. (Len(orcs[Len(family)]) - 1)

\* query with the indices mus drawn by its lambda = Len(mus) iterations
query(family, tvs, rs, table, orcs, mus) ==
    QueryLoop(family, tvs, rs, table, orcs, mus, 1, <<>>)

(***************************************************************************)
(* A protocol instance and its caller.                                     *)
(***************************************************************************)
MaxVariables == 2

MaxDegree == 1

MaxDraw == 1

MaxMessageValue == 1

MaxLambda == 2

MaxCommits == 2

MaxProofLen == 2

\* what rng.gen() returns, bounded
Draws == 0 .. MaxDraw

Codes == {ReedMullerCode_new(degree, variables) :
             degree \in 0 .. MaxDegree, variables \in 1 .. MaxVariables}

\* the code families a caller may hand to new, main's kind among them: the
\* variable count strictly decreasing
Families ==
    {f \in UNION {[1 .. c -> Codes] : c \in 1 .. MaxVariables} :
        \A i \in 1 .. (Len(f) - 1) : f[i].variables > f[i + 1].variables}

\* main's t-vector of a code: FieldElement::new(i) for i in 0..n
TVector(code) == [j \in 1 .. code.n |-> (j - 1) % FIELD_SIZE]

MessagesOf(k) == [1 .. k -> 0 .. MaxMessageValue]

NoCommit == [message |-> <<>>, oracles |-> <<>>]

NoQuery == [lambda |-> 0, sampled |-> <<>>, verdict |-> "none"]

NoVerify == [root |-> 0, value |-> 0, proof |-> <<>>, index |-> 0,
             first |-> FALSE, second |-> FALSE]

\* BasefoldProtocol::new: one challenge a code, an empty hash_table
BasefoldProtocol_new ==
    \E family \in Families : \E rs \in [1 .. Len(family) -> Draws] :
        /\ code_family = family
        /\ t_vectors = [i \in 1 .. Len(family) |-> TVector(family[i])]
        /\ commitment_randomness = rs
        /\ hash_table = EmptyTable

CallerIdle ==
    /\ stage = "ready"
    /\ ncommits = 0
    /\ committed = NoCommit
    /\ oracles = <<>>
    /\ qres = NoQuery
    /\ vcall = NoVerify

Untampered == oracles = committed.oracles

\* commit(message) on a message of round 0's dimension
Commit ==
    /\ stage \in {"ready", "committed", "queried"}
    /\ ncommits < MaxCommits
    /\ Untampered
    /\ \E message \in MessagesOf(code_family[1].k) :
       \E hs \in [1 .. Len(code_family) -> [1 .. (2 ^ MaxVariables - 1) -> Draws]] :
       \E res \in {commit(code_family, t_vectors, commitment_randomness, hash_table,
                          message, hs)} :
          /\ hash_table' = res.table
          /\ stage' = IF res.ok THEN "committed" ELSE "panicked"
          /\ committed' = IF res.ok THEN [message |-> message, oracles |-> res.oracles]
                          ELSE [message |-> message, oracles |-> <<>>]
          /\ oracles' = IF res.ok THEN res.oracles ELSE <<>>
    /\ ncommits' = ncommits + 1
    /\ qres' = NoQuery
    /\ UNCHANGED <<code_family, t_vectors, commitment_randomness, vcall, fieldVars, merkleVars, codeVars>>

\* the caller overwrites one entry of the transcript (main: oracle 0)
Corrupt ==
    /\ stage = "committed"
    /\ \E i \in 1 .. Len(oracles) : \E j \in 1 .. Len(oracles[i]) :
       \E x \in Field \ {oracles[i][j]} :
          oracles' = [oracles EXCEPT ![i][j] = x]
    /\ stage' = "tampered"
    /\ UNCHANGED <<instanceVars, ncommits, committed, qres, vcall, fieldVars, merkleVars, codeVars>>

\* the caller hands over a transcript without its last oracle
Truncate ==
    /\ stage = "committed"
    /\ oracles' = SubSeq(oracles, 1, Len(oracles) - 1)
    /\ stage' = "tampered"
    /\ UNCHANGED <<instanceVars, ncommits, committed, qres, vcall, fieldVars, merkleVars, codeVars>>

\* the caller hands over a transcript with one oracle an entry short
Shorten ==
    /\ stage = "committed"
    /\ \E i \in 1 .. Len(oracles) :
          /\ Len(oracles[i]) >= 1
          /\ oracles' = [oracles EXCEPT ![i] = SubSeq(oracles[i], 1, Len(oracles[i]) - 1)]
    /\ stage' = "tampered"
    /\ UNCHANGED <<instanceVars, ncommits, committed, qres, vcall, fieldVars, merkleVars, codeVars>>

\* query(oracles, lambda): gen_range panics on an empty range and oracles[d]
\* on a missing oracle
Query ==
    /\ stage \in {"committed", "tampered"}
    /\ \E lambda \in 0 .. MaxLambda :
          IF lambda > 0 /\ SampleRange(code_family, oracles) = {}
          THEN /\ qres' = [lambda |-> lambda, sampled |-> <<>>, verdict |-> "panic"]
               /\ stage' = "panicked"
          ELSE \E mus \in [1 .. lambda -> SampleRange(code_family, oracles)] :
               \E res \in {query(code_family, t_vectors, commitment_randomness,
                                 hash_table, oracles, mus)} :
                  /\ qres' = [lambda |-> lambda, sampled |-> res.sampled,
                              verdict |-> res.verdict]
                  /\ stage' = IF res.verdict = "panic" THEN "panicked" ELSE "queried"
    /\ UNCHANGED <<instanceVars, ncommits, committed, oracles, vcall, fieldVars, merkleVars, codeVars>>

Next == Commit \/ Corrupt \/ Truncate \/ Shorten \/ Query

\* verify_merkle_proof(root, value, proof, index), called twice on the same
\* arguments; each call draws its own h in every hash_pair
VerifyArguments ==
    \E root_value \in Field, value \in Field, index \in 0 .. (2 ^ MaxProofLen - 1) :
    \E proof \in UNION {[1 .. n -> Field] : n \in 0 .. MaxProofLen} :
        vcall = [root |-> root_value, value |-> value, proof |-> proof, index |-> index,
                 first |-> FALSE, second |-> FALSE]

VerifyMerkleProof ==
    /\ stage = "ready"
    /\ \E hs1 \in [1 .. Len(vcall.proof) -> Draws], hs2 \in [1 .. Len(vcall.proof) -> Draws] :
          vcall' = [vcall EXCEPT
                      !.first = verify_merkle_proof(vcall.root, vcall.value, vcall.proof,
                                                    vcall.index, hs1),
                      !.second = verify_merkle_proof(vcall.root, vcall.value, vcall.proof,
                                                     vcall.index, hs2)]
    /\ stage' = "verified"
    /\ UNCHANGED <<instanceVars, ncommits, committed, oracles, qres, fieldVars, merkleVars, codeVars>>

(***************************************************************************)
(* Claims about the protocol (checked under Spec and SpecVerify).          *)
(***************************************************************************)
Queried == qres.verdict # "none"

Rounds == 1 .. Len(code_family)

\* the index one check that started at pair start mu uses at round i (1-based)
IndexAt(mu, i) == mu \div (2 ^ (Len(code_family) - i))

\* commit's fold of the pair (j, j+1) of round i's codeword of orcs[i] is the
\* entry j/2 of orcs[i+1]; j is 0-based
FoldRelation(orcs, i, j) ==
    /\ i + 1 <= Len(orcs)
    /\ LET encoded == encode(code_family[i], orcs[i])
       IN /\ encoded.ok
          /\ j + 2 <= Len(encoded.v)
          /\ j + 2 <= Len(t_vectors[i])
          /\ (j \div 2) + 1 <= Len(orcs[i + 1])
          /\ FoldValue(t_vectors[i][j + 1], t_vectors[i][j + 2],
                       encoded.v[j + 1], encoded.v[j + 2],
                       commitment_randomness[i]).v = orcs[i + 1][(j \div 2) + 1]

\* C1: query on the transcript commit returned, with lambda >= 1, returns
\* true whatever indices it samples.
C1_Completeness ==
    (Queried /\ Untampered /\ qres.lambda >= 1) => qres.verdict = "true"

\* C2: query returns true only if, in every check and at every round i, the
\* fold of round i's consumed pair at the challenge r_i equals the entry of
\* oracle[i+1] at the folded index.
C2_FoldRelation ==
    (qres.verdict = "true") =>
        \A s \in 1 .. Len(qres.sampled) : \A i \in Rounds :
            FoldRelation(oracles, i, IndexAt(qres.sampled[s], i))

\* the relation verify_fold_at_point tests: the fold of the pair (j, j+1) of
\* orcs[i+1] itself equals the entry j/2 of orcs[i]
CheckedRelation(orcs, i, j) ==
    /\ i + 1 <= Len(orcs)
    /\ j + 2 <= Len(orcs[i + 1])
    /\ j + 2 <= Len(t_vectors[i])
    /\ (j \div 2) + 1 <= Len(orcs[i])
    /\ FoldValue(t_vectors[i][j + 1], t_vectors[i][j + 2],
                 orcs[i + 1][j + 1], orcs[i + 1][j + 2],
                 commitment_randomness[i]).v = orcs[i][(j \div 2) + 1]

\* what a true verdict does establish: CheckedRelation at every round of
\* every check
QueryChecksRelation ==
    (qres.verdict = "true") =>
        \A s \in 1 .. Len(qres.sampled) : \A i \in Rounds :
            CheckedRelation(oracles, i, IndexAt(qres.sampled[s], i))

\* C3: query returns true only if, in every check and at every round, the
\* proof table holds an entry for the consumed pair.
C3_MissingEntryRejected ==
    (qres.verdict = "true") =>
        \A s \in 1 .. Len(qres.sampled) : \A i \in Rounds :
            LET mu == IndexAt(qres.sampled[s], i)
            IN SubSeq(oracles[i + 1], mu + 1, mu + 2) \in DOMAIN hash_table

\* C4: query never panics, whatever transcript it is given.
C4_QueryNeverPanics == qres.verdict # "panic"

\* C6: two calls of verify_merkle_proof on the same arguments return the
\* same verdict.
C6_VerifyDeterministic == (stage = "verified") => (vcall.first = vcall.second)

\* C7: commit(message) returns c + 1 oracles, oracle[0] the message, and
\* oracle[i+1] the fold of encode_i(oracle[i]), half its length; no round's
\* folded output is refused by the next round's encode.
C7_CommitTranscript ==
    (ncommits >= 1) =>
        /\ Len(committed.oracles) = Len(code_family) + 1
        /\ committed.oracles[1] = committed.message
        /\ \A i \in Rounds :
              /\ 2 * Len(committed.oracles[i + 1]) = code_family[i].n
              /\ \A p \in 0 .. (Len(committed.oracles[i + 1]) - 1) :
                    FoldRelation(committed.oracles, i, 2 * p)

\* the families in which every round's folded output has the length the next
\* round's encode asserts
ChainedFamily ==
    \A i \in 1 .. (Len(code_family) - 1) : 2 * code_family[i + 1].k = code_family[i].n

\* over a chained family commit does return the transcript described
ChainedCommitTranscript == ChainedFamily => C7_CommitTranscript

\* C8: no commit or query call changes a field of the instance.
C8_InstanceReadOnly == [][instanceVars' = instanceVars]_vars

FieldIdle ==
    /\ overflow_checks = TRUE
    /\ fcall = Call("none", 0, 0, 0, Panic)

ProtocolIdle ==
    /\ code_family = <<>>
    /\ t_vectors = <<>>
    /\ commitment_randomness = <<>>
    /\ hash_table = EmptyTable
    /\ CallerIdle

InitField == FieldInputs /\ MerkleIdle /\ ProtocolIdle /\ CodeIdle

SpecField == InitField /\ [][FieldNext]_vars

InitMerkle == FieldIdle /\ MerkleIdle /\ ProtocolIdle /\ CodeIdle

SpecMerkle == InitMerkle /\ [][MerkleNext]_vars

Init == FieldIdle /\ MerkleIdle /\ BasefoldProtocol_new /\ CallerIdle /\ CodeIdle

Spec == Init /\ [][Next]_vars

\* the instance main builds within the bounds, and the arguments of the calls
InitVerify ==
    /\ FieldIdle /\ MerkleIdle /\ BasefoldProtocol_new /\ CodeIdle
    /\ Len(code_family) = MaxVariables
    /\ \A i \in 1 .. Len(code_family) : code_family[i].degree = MaxDegree
    /\ stage = "ready" /\ ncommits = 0 /\ committed = NoCommit /\ oracles = <<>>
    /\ qres = NoQuery
    /\ VerifyArguments

SpecVerify == InitVerify /\ [][VerifyMerkleProof]_vars

InitCode == FieldIdle /\ MerkleIdle /\ ProtocolIdle /\ CodeInputs

SpecCode == InitCode /\ [][CodeNext]_vars

====
